---- MODULE Spec2Model ----
(***************************************************************************)
(* Freezer storage app: the client's date utilities (utils/dates.ts), the  *)
(* item store hook (hooks/useItems.ts) and the handlers that feed it       *)
(* (ItemForm, ItemCard, PhotoCapture), the views derived from the store    *)
(* (the browse list, the Dashboard, the CategoryFilter) and App's view     *)
(* switching.                                                              *)
(*                                                                         *)
(* Representation.  An ISO date string "YYYY-MM-DD" is the record          *)
(* [y, m, d]; the empty string is NoDate.  A JavaScript Date is its time   *)
(* value, counted here in whole hours since 1970-01-01T00:00Z (the code    *)
(* counts milliseconds; every instant the model uses is on the hour, and   *)
(* every duration is divided by the hours of a day where the code divides  *)
(* by the milliseconds of a day).  A time zone is a record                 *)
(* [base, dst]: the standard offset in hours and the UTC intervals during  *)
(* which one more hour applies.                                            *)
(***************************************************************************)
EXTENDS Integers, Sequences, FiniteSets, TLC

VARIABLES
    tz,         \* the time zone the browser runs in
    now,        \* the wall clock: the time value `new Date()` returns
    dcall,      \* the last call of a date utility: its arguments and result
    items,      \* useItems: the committed `items` state (the canonical collection)
    nextId,     \* useItems: the module-level id counter
    queue,      \* React's queue of `setItems` updaters not yet rendered
    stored,     \* localStorage["freezer-items"]: the persisted collection
    crashed,    \* the persist effect threw and React unmounted the tree
    call,       \* the last handler run: the hook call it made and its outcome
    searchQuery,        \* useItems: the search box's text
    selectedCategory,   \* useItems: "All" or the category filtered on
    sortBy,             \* useItems: the sort key of the browse list
    viewMode,           \* App: the view displayed
    history,    \* window.history: the session's entries and the current one
    table,      \* the server's freezer_items table
    response    \* the server's answer to the last request

dateVars == <<tz, now, dcall>>
storeVars == <<items, nextId, queue, stored, crashed, call>>
viewVars == <<searchQuery, selectedCategory, sortBy, viewMode>>
serverVars == <<table, response>>
vars == <<tz, now, dcall, items, nextId, queue, stored, crashed, call,
          searchQuery, selectedCategory, sortBy, viewMode, history,
          table, response>>

----------------------------------------------------------------------------
(* Calendar arithmetic of the Date object (proleptic Gregorian).           *)

HoursPerDay == 24

IsLeap(y) == (y % 4 = 0 /\ y % 100 # 0) \/ y % 400 = 0

DaysInMonth(y, m) ==
    IF m = 2 THEN (IF IsLeap(y) THEN 29 ELSE 28)
    ELSE IF m \in {4, 6, 9, 11} THEN 30 ELSE 31

\* Days from 1970-01-01 to the civil date y-m-d (m in 1..12, any d).
DaysFromCivil(y, m, d) ==
    LET yy  == IF m <= 2 THEN y - 1 ELSE y
        era == yy \div 400
        yoe == yy - era * 400
        mp  == IF m > 2 THEN m - 3 ELSE m + 9
        doy == (153 * mp + 2) \div 5 + d - 1
        doe == yoe * 365 + yoe \div 4 - yoe \div 100 + doy
    IN  era * 146097 + doe - 719468

\* The civil date of day number z.
CivilFromDays(z) ==
    LET zz  == z + 719468
        era == zz \div 146097
        doe == zz - era * 146097
        yoe == (doe - doe \div 1460 + doe \div 36524 - doe \div 146096) \div 365
        doy == doe - (365 * yoe + yoe \div 4 - yoe \div 100)
        mp  == (5 * doy + 2) \div 153
        dd  == doy - (153 * mp + 2) \div 5 + 1
        mm  == IF mp < 10 THEN mp + 3 ELSE mp - 9
        yy  == yoe + era * 400 + (IF mm <= 2 THEN 1 ELSE 0)
    IN  [y |-> yy, m |-> mm, d |-> dd]

NoDate == [y |-> 0, m |-> 0, d |-> 0]

\* Whether Date.parse accepts dateStr + "T00:00:00".
IsValidDateStr(ds) ==
    /\ ds # NoDate
    /\ ds.m \in 1..12
    /\ ds.d \in 1..DaysInMonth(ds.y, ds.m)

----------------------------------------------------------------------------
(* Local time.                                                             *)

\* The offset local - UTC, in hours, at the UTC instant t.
TzOffset(zone, t) ==
    zone.base + (IF \E iv \in zone.dst : iv[1] <= t /\ t < iv[2] THEN 1 ELSE 0)

\* The local civil fields of the instant t: getFullYear/getMonth/getDate/getHours.
LocalFields(zone, t) ==
    LET lt == t + TzOffset(zone, t)
        c  == CivilFromDays(lt \div HoursPerDay)
    IN  [y |-> c.y, m |-> c.m, d |-> c.d, h |-> lt % HoursPerDay]

\* The instant of the local time `day` days and `h` hours after the epoch.  A
\* local time a transition repeats or skips is read with the offset in force
\* before the transition.
LocalToUtc(zone, day, h) ==
    LET lt  == day * HoursPerDay + h
        fit == {o \in {zone.base, zone.base + 1} : TzOffset(zone, lt - o) = o}
    IN  IF Cardinality(fit) = 1 THEN lt - (CHOOSE o \in fit : TRUE)
        ELSE lt - TzOffset(zone, lt - zone.base - 1)

\* new Date(dateStr + "T00:00:00"): local midnight of the date.
ParseLocalMidnight(zone, ds) == LocalToUtc(zone, DaysFromCivil(ds.y, ds.m, ds.d), 0)

\* date.setHours(0, 0, 0, 0)
StartOfLocalDay(zone, t) ==
    LET f == LocalFields(zone, t)
    IN  LocalToUtc(zone, DaysFromCivil(f.y, f.m, f.d), 0)

\* date.toISOString().slice(0, 10): the UTC civil date of the instant.
ToISODate(t) == CivilFromDays(t \div HoursPerDay)

\* Math.round(n / d) for d > 0: the nearest integer, halves toward +infinity.
RoundDiv(n, d) == (2 * n + d) \div (2 * d)

----------------------------------------------------------------------------
(* utils/dates.ts                                                          *)

daysUntil(zone, clock, dateStr) ==
    LET today  == StartOfLocalDay(zone, clock)
        target == ParseLocalMidnight(zone, dateStr)
    IN  RoundDiv(target - today, HoursPerDay)

SoonLimit7 == 7
SoonLimit14 == 14

getExpiryStatusOffByOne(zone, clock, expiryDate) ==
    LET days == daysUntil(zone, clock, expiryDate)
    IN  IF days <= 0 THEN "expired"
        ELSE IF days <= SoonLimit7 THEN "expiring-soon-7"
        ELSE IF days <= SoonLimit14 THEN "expiring-soon-14"
        ELSE "good"

getExpiryStatus(zone, clock, expiryDate) ==
    LET days == daysUntil(zone, clock, expiryDate)
    IN  IF days < 0 THEN "expired"
        ELSE IF days <= SoonLimit7 THEN "expiring-soon-7"
        ELSE IF days <= SoonLimit14 THEN "expiring-soon-14"
        ELSE "good"

\* result.setMonth(result.getMonth() + months): the local fields with the month
\* moved, an overflowing day of month carried into the following month.
SetMonth(zone, t, months) ==
    LET f   == LocalFields(zone, t)
        mi  == (f.m - 1) + months
        yy  == f.y + mi \div 12
        mm  == (mi % 12) + 1
    IN  LocalToUtc(zone, DaysFromCivil(yy, mm, 1) + f.d - 1, f.h)

\* result.setDate(0): the last day of the previous month, same local time.
SetDateZero(zone, t) ==
    LET f == LocalFields(zone, t)
    IN  LocalToUtc(zone, DaysFromCivil(f.y, f.m, 1) - 1, f.h)

addMonths(zone, date, months) ==
    LET moved  == SetMonth(zone, date, months)
        result == IF LocalFields(zone, moved).d < LocalFields(zone, date).d
                  THEN SetDateZero(zone, moved)
                  ELSE moved
    IN  ToISODate(result)

----------------------------------------------------------------------------
(* The environment of the date utilities: time zones and wall clocks.      *)

\* The UTC instant y-m-d h:00Z.
UtcHour(y, m, d, h) == DaysFromCivil(y, m, d) * HoursPerDay + h

UTC == [name |-> "UTC", base |-> 0, dst |-> {}]

Oslo ==
    [name |-> "Europe/Oslo", base |-> 1,
     dst |-> {<<UtcHour(2024, 3, 31, 1), UtcHour(2024, 10, 27, 1)>>,
              <<UtcHour(2025, 3, 30, 1), UtcHour(2025, 10, 26, 1)>>}]

LosAngeles ==
    [name |-> "America/Los_Angeles", base |-> -8,
     dst |-> {<<UtcHour(2024, 3, 10, 10), UtcHour(2024, 11, 3, 9)>>,
              <<UtcHour(2025, 3, 9, 10), UtcHour(2025, 11, 2, 9)>>}]

Zones == {UTC, Oslo, LosAngeles}

\* Days on which the clock is read: month ends, and days shortly before each
\* zone's daylight-saving transitions.
ClockDays ==
    {<<2024, 1, 31>>, <<2025, 1, 31>>, <<2024, 1, 15>>, <<2024, 3, 31>>,
     <<2024, 3, 5>>, <<2024, 3, 25>>, <<2024, 10, 20>>, <<2024, 12, 31>>}

ClockHours == {0, 9, 23}

Clocks == {UtcHour(c[1], c[2], c[3], h) : c \in ClockDays, h \in ClockHours}

BackDays == 3
AheadDays == 16
DayOffsets == (0 - BackDays)..AheadDays

MonthOffsets == {1, 2, 3, 6, 12}

\* The local calendar day number of the instant t.
LocalDayNumber(zone, t) ==
    LET f == LocalFields(zone, t) IN DaysFromCivil(f.y, f.m, f.d)

NoCall == [fn |-> "none", clock |-> 0, arg |-> NoDate, months |-> 0,
           status |-> "", date |-> NoDate]

DateInit ==
    /\ tz \in Zones
    /\ now \in Clocks
    /\ dcall = NoCall

\* Time passes.
Tick ==
    /\ \E t \in Clocks : t > now /\ now' = t
    /\ dcall' = NoCall
    /\ UNCHANGED tz

\* getExpiryStatus(expiryDate) for an expiry date n days from the local today.
CallGetExpiryStatus ==
    /\ \E n \in DayOffsets :
          LET e == CivilFromDays(LocalDayNumber(tz, now) + n)
          IN  dcall' = [NoCall EXCEPT !.fn = "getExpiryStatus", !.clock = now,
                                     !.arg = e,
                                     !.status = getExpiryStatus(tz, now, e)]
    /\ UNCHANGED <<tz, now>>

\* addMonths(new Date(), months)
CallAddMonths ==
    /\ \E k \in MonthOffsets :
          dcall' = [NoCall EXCEPT !.fn = "addMonths", !.clock = now,
                                 !.months = k,
                                 !.date = addMonths(tz, now, k)]
    /\ UNCHANGED <<tz, now>>

----------------------------------------------------------------------------
(* types: the closed category set and the shelf lives.                     *)

CATEGORIES ==
    <<"Meat", "Poultry", "Seafood", "Vegetables", "Fruit", "Bread & Bakery",
      "Prepared Meals", "Dairy", "Other">>

CategorySet == {CATEGORIES[i] : i \in DOMAIN CATEGORIES}

\* CATEGORY_SHELF_LIFE[category].max
ShelfLifeMax(category) ==
    CASE category \in {"Meat", "Poultry", "Vegetables", "Fruit"} -> 12
      [] category \in {"Seafood", "Dairy", "Other"} -> 6
      [] OTHER -> 3

----------------------------------------------------------------------------
(* Text.  The model's strings are the few below; trim and Number are what  *)
(* JavaScript computes on them.                                            *)

\* s.trim()
Trim(s) ==
    CASE s = " " -> ""
      [] s = "Peas " -> "Peas"
      [] OTHER -> s

NaN == [nan |-> TRUE, v |-> 0]
Num(n) == [nan |-> FALSE, v |-> n]

\* Number(s)
Number(s) ==
    CASE s \in {"", " "} -> Num(0)
      [] s = "-1" -> Num(-1)
      [] s = "0" -> Num(0)
      [] s = "1" -> Num(1)
      [] s = "2" -> Num(2)
      [] OTHER -> NaN

\* Number(s) || 1: NaN and 0 are falsy
NumberOrOne(s) ==
    LET n == Number(s) IN IF n.nan \/ n.v = 0 THEN 1 ELSE n.v

----------------------------------------------------------------------------
(* ItemForm                                                                *)

\* validate(data): the fields with an error
validate(data) ==
    LET qty == Number(data.quantity)
    IN  (IF Trim(data.name) = "" THEN {"name"} ELSE {})
        \cup (IF Trim(data.quantity) = "" \/ qty.nan \/ qty.v <= 0
              THEN {"quantity"} ELSE {})
        \cup (IF Trim(data.unit) = "" THEN {"unit"} ELSE {})
        \cup (IF data.expiryDate = NoDate \/ ~IsValidDateStr(data.expiryDate)
              THEN {"expiryDate"} ELSE {})

\* The draft handleSubmit passes to onSave.
FormDraft(data) ==
    [name |-> Trim(data.name), category |-> data.category,
     quantity |-> Number(data.quantity).v, unit |-> Trim(data.unit),
     dateAdded |-> data.dateAdded, expiryDate |-> data.expiryDate,
     notes |-> Trim(data.notes)]

----------------------------------------------------------------------------
(* PhotoCapture                                                            *)

\* todayISO()
todayISO(clock) == ToISODate(clock)

\* defaultExpiry(category)
defaultExpiry(zone, clock, category) ==
    addMonths(zone, clock, ShelfLifeMax(category))

\* The drafts handleAddSelected builds from the checked rows.
SelectedDrafts(zone, clock, results) ==
    LET selected == SelectSeq(results, LAMBDA r : r.checked)
    IN  [i \in DOMAIN selected |->
           [name |-> Trim(selected[i].name),
            category |-> selected[i].category,
            quantity |-> NumberOrOne(selected[i].quantity),
            unit |-> IF Trim(selected[i].unit) = "" THEN "pcs"
                     ELSE Trim(selected[i].unit),
            dateAdded |-> todayISO(clock),
            expiryDate |-> defaultExpiry(zone, clock, selected[i].category),
            notes |-> "Added via photo"]]

----------------------------------------------------------------------------
(* useItems                                                                *)

Ids(list) == {list[i].id : i \in DOMAIN list}

\* Math.max(...ids) of a non-empty list
MaxIdOf(list) == CHOOSE m \in Ids(list) : \A n \in Ids(list) : n <= m

deriveNextIdNoIncrement(list) ==
    IF Len(list) = 0 THEN 1 ELSE MaxIdOf(list)

deriveNextId(list) ==
    IF Len(list) = 0 THEN 1 ELSE MaxIdOf(list) + 1

\* { ...item, id }
WithId(draft, id) ==
    [id |-> id, name |-> draft.name, category |-> draft.category,
     quantity |-> draft.quantity, unit |-> draft.unit,
     dateAdded |-> draft.dateAdded, expiryDate |-> draft.expiryDate,
     notes |-> draft.notes]

\* { ...item, ...updates }
Merge(item, updates) ==
    [f \in DOMAIN item |-> IF f \in DOMAIN updates THEN updates[f] ELSE item[f]]

\* The updater of addItem / addItems: [...prev, ...withIds]
AppendUpdater(prev, withIds) == prev \o withIds

UpdateUpdaterByIndex(prev, id, updates) ==
    [i \in DOMAIN prev |->
       IF i - 1 = id THEN Merge(prev[i], updates) ELSE prev[i]]

\* The updater of updateItem: prev.map(item => item.id === id ? merged : item)
UpdateUpdater(prev, id, updates) ==
    [i \in DOMAIN prev |->
       IF prev[i].id = id THEN Merge(prev[i], updates) ELSE prev[i]]

\* The updater of deleteItem: prev.filter(item => item.id !== id)
DeleteUpdaterByIndex(prev, id) ==
    IF id \in DOMAIN prev
    THEN SubSeq(prev, 1, id - 1) \o SubSeq(prev, id + 1, Len(prev))
    ELSE prev

DeleteUpdater(prev, id) == SelectSeq(prev, LAMBDA item : item.id # id)

\* The queued updaters applied in order to the committed state.
RECURSIVE ApplyQueue(_, _)
ApplyQueue(prev, q) ==
    IF q = <<>> THEN prev
    ELSE LET u    == Head(q)
             next == CASE u.kind = "append" -> AppendUpdater(prev, u.new)
                       [] u.kind = "update" -> UpdateUpdater(prev, u.id, u.updates)
                       [] OTHER -> DeleteUpdater(prev, u.id)
         IN  ApplyQueue(next, Tail(q))

\* JSON.stringify(items) and JSON.parse(stored): the array's elements survive
\* (every field is a string or a finite number).
JSONStringify(list) == [array |-> TRUE, elems |-> list]
JSONParse(text) == text

NoStorage == [present |-> FALSE, text |-> [array |-> FALSE, elems |-> <<>>]]
Stored(list) == [present |-> TRUE, text |-> JSONStringify(list)]

\* data/mock-items
MockItems ==
    <<[id |-> 1, name |-> "Peas", category |-> "Vegetables", quantity |-> 2,
       unit |-> "bags", dateAdded |-> [y |-> 2024, m |-> 1, d |-> 10],
       expiryDate |-> [y |-> 2024, m |-> 9, d |-> 10], notes |-> ""]>>

loadItems(storage) ==
    IF storage.present
    THEN LET parsed == JSONParse(storage.text)
         IN  IF parsed.array /\ Len(parsed.elems) > 0 THEN parsed.elems
             ELSE MockItems
    ELSE MockItems

----------------------------------------------------------------------------
(* Bounds and inputs of the store.                                         *)

MaxId == 3          \* ids handed out: 1..MaxId
MaxQty == 2         \* the stepper stops increasing here
MaxQueue == 2       \* hook calls a caller makes before React renders

IdSpace == 1..MaxId

BaseForm ==
    [name |-> "Peas ", category |-> "Meat", quantity |-> "1", unit |-> "pcs",
     dateAdded |-> [y |-> 2024, m |-> 1, d |-> 31],
     expiryDate |-> [y |-> 2025, m |-> 1, d |-> 31], notes |-> " "]

\* What the user may submit: the base form, and the base form with one field
\* changed to a value validate rejects.
FormInputs ==
    {BaseForm}
    \cup {[BaseForm EXCEPT !.name = " "]}
    \cup {[BaseForm EXCEPT !.quantity = q] : q \in {"", "abc", "0", "-1"}}
    \cup {[BaseForm EXCEPT !.unit = " "]}
    \cup {[BaseForm EXCEPT !.expiryDate = e] :
             e \in {NoDate, [y |-> 2025, m |-> 13, d |-> 1]}}

GoodRow ==
    [checked |-> TRUE, name |-> "Cod", category |-> "Seafood",
     quantity |-> "1", unit |-> "pcs", confidence |-> 90]

NegativeRow == [GoodRow EXCEPT !.quantity = "-1"]

BlankRow == [GoodRow EXCEPT !.name = " ", !.quantity = "abc", !.unit = " "]

UncheckedRow == [GoodRow EXCEPT !.checked = FALSE, !.confidence = 40]

\* Photo results as the user left them: rows as identified, with a negative
\* quantity, blanked, and unchecked.
PhotoResults ==
    {<<GoodRow>>, <<NegativeRow>>, <<BlankRow>>, <<UncheckedRow>>,
     <<GoodRow, UncheckedRow>>, <<GoodRow, NegativeRow>>, <<GoodRow, GoodRow>>}

\* Whether a draft satisfies the Item invariants.
ValidDraft(d) ==
    /\ d.name # ""
    /\ d.category \in CategorySet
    /\ d.quantity > 0
    /\ IsValidDateStr(d.expiryDate)

NoEntry == [kind |-> "none", id |-> 0, new |-> <<>>, updates |-> <<>>]
AppendEntry(withIds) == [NoEntry EXCEPT !.kind = "append", !.new = withIds]
UpdateEntry(id, updates) ==
    [NoEntry EXCEPT !.kind = "update", !.id = id, !.updates = updates]
DeleteEntry(id) == [NoEntry EXCEPT !.kind = "delete", !.id = id]

NoHandler ==
    [op |-> "none", id |-> 0, absent |-> FALSE, invalid |-> FALSE,
     pending |-> 0, outcome |-> "ok"]

StoreInit ==
    /\ items = loadItems(NoStorage)
    /\ nextId = deriveNextId(loadItems(NoStorage))
    /\ queue = <<>>
    /\ stored = Stored(loadItems(NoStorage))
    /\ crashed = FALSE
    /\ call = NoHandler

----------------------------------------------------------------------------
(* The hook's operations.  Each returns nothing and throws nothing; its    *)
(* setItems call queues an updater.  `entry` is the updater queued, `used` *)
(* the ids taken from the counter.                                         *)

\* addItem(item)
addItemStaleId(draft) ==
    [entry |-> AppendEntry(<<WithId(draft, nextId - 1)>>), used |-> 1]

addItem(draft) ==
    [entry |-> AppendEntry(<<WithId(draft, nextId)>>), used |-> 1]

\* addItems(newItems)
addItems(drafts) ==
    [entry |-> AppendEntry([i \in DOMAIN drafts |->
                              WithId(drafts[i], nextId + i - 1)]),
     used |-> Len(drafts)]

\* updateItem(id, updates)
updateItem(id, updates) == [entry |-> UpdateEntry(id, updates), used |-> 0]

\* deleteItem(id)
deleteItem(id) == [entry |-> DeleteEntry(id), used |-> 0]

\* A handler that returns without calling the hook.
NoHookCall == [entry |-> NoEntry, used |-> 0]

\* Queued updates and deletes against id that no render has applied yet.
PendingOn(id) ==
    Cardinality({i \in DOMAIN queue :
                   queue[i].kind \in {"update", "delete"} /\ queue[i].id = id})

\* The record of a handler's run: the hook operation it led to, the id it
\* targets (0 when it targets none), and how it ended for the caller.
Called(op, id, invalid, outcome) ==
    [op |-> op, id |-> id, absent |-> id # 0 /\ id \notin Ids(items),
     invalid |-> invalid, pending |-> PendingOn(id), outcome |-> outcome]

\* The persist effect: localStorage.setItem(STORAGE_KEY, JSON.stringify(items)).
\* setItem may throw (quota exceeded, storage disabled); nothing catches it, and
\* an effect that throws unmounts the tree.
Persist ==
    \E ok \in BOOLEAN :
       IF ok THEN stored' = Stored(items') /\ crashed' = FALSE
       ELSE crashed' = TRUE /\ UNCHANGED stored

\* A handler runs to its end and React renders: the updater is applied and
\* the persist effect runs.
Commit(eff, record) ==
    /\ ~crashed
    /\ queue = <<>>
    /\ eff.used = 0 \/ nextId + eff.used - 1 <= MaxId
    /\ nextId' = nextId + eff.used
    /\ call' = record
    /\ IF eff.entry = NoEntry
       THEN UNCHANGED <<items, stored, crashed>>
       ELSE items' = ApplyQueue(items, <<eff.entry>>) /\ Persist
    /\ UNCHANGED queue

\* A handler runs while earlier updaters of the same tick are still queued.
Enqueue(eff, record) ==
    /\ ~crashed
    /\ Len(queue) < MaxQueue
    /\ eff.used = 0 \/ nextId + eff.used - 1 <= MaxId
    /\ nextId' = nextId + eff.used
    /\ call' = record
    /\ queue' = IF eff.entry = NoEntry THEN queue ELSE Append(queue, eff.entry)
    /\ UNCHANGED <<items, stored, crashed>>

\* A handler that called the hook.
Handle(batched, effect, record) ==
    \E eff \in {effect}, rec \in {record} :
       IF batched THEN Enqueue(eff, rec) ELSE Commit(eff, rec)

\* A handler that returned without calling the hook.
Rejected(batched, record) == Handle(batched, NoHookCall, record)

----------------------------------------------------------------------------
(* Handlers.                                                               *)

\* ItemForm.handleSubmit over the forms submitted: those validate() rejects
\* return before onSave (what is kept of each is whether its values break the
\* item's invariants), the others call onSave with the form's draft.
RejectedSubmits ==
    {~ValidDraft(FormDraft(data)) : data \in {d \in FormInputs : validate(d) # {}}}

SubmittedDrafts ==
    {FormDraft(data) : data \in {d \in FormInputs : validate(d) = {}}}

\* ItemForm.handleSubmit in add mode, then App.handleAddSave
SubmitAdd(batched) ==
    \/ \E invalid \in RejectedSubmits :
          Rejected(batched, Called("addItem", 0, invalid, "ValidationError"))
    \/ \E draft \in SubmittedDrafts :
          Handle(batched, addItem(draft),
                 Called("addItem", nextId, ~ValidDraft(draft), "ok"))

\* ItemForm.handleSubmit in edit mode, then App.handleEditSave, or any other
\* caller of updateItem(id, data)
SubmitEdit(batched) ==
    \/ \E invalid \in RejectedSubmits :
          Rejected(batched, Called("updateItem", 0, invalid, "ValidationError"))
    \/ \E draft \in SubmittedDrafts, id \in IdSpace :
          Handle(batched, updateItem(id, draft),
                 Called("updateItem", id, ~ValidDraft(draft), "ok"))

\* ItemCard.handleIncrease on the card of items[i]
Increase(batched) ==
    \E i \in DOMAIN items :
       /\ items[i].quantity < MaxQty
       /\ Handle(batched,
                 updateItem(items[i].id, [quantity |-> items[i].quantity + 1]),
                 Called("updateItem", items[i].id, FALSE, "ok"))

\* ItemCard.handleDecrease on the card of items[i]
Decrease(batched) ==
    \E i \in DOMAIN items :
       IF items[i].quantity <= 1
       THEN \E confirmed \in BOOLEAN :
               IF confirmed
               THEN Handle(batched, deleteItem(items[i].id),
                           Called("deleteItem", items[i].id, FALSE, "ok"))
               ELSE Rejected(batched, Called("none", items[i].id, FALSE, "ok"))
       ELSE Handle(batched,
                   updateItem(items[i].id, [quantity |-> items[i].quantity - 1]),
                   Called("updateItem", items[i].id, FALSE, "ok"))

\* ItemCard.handleDelete confirmed, or any other caller of deleteItem(id)
Delete(batched) ==
    \E id \in IdSpace :
       Handle(batched, deleteItem(id), Called("deleteItem", id, FALSE, "ok"))

\* The zone and the instant the store is run in, and the drafts
\* handleAddSelected makes of each photo result there.
StoreZone == Oslo

StoreClock == UtcHour(2024, 1, 31, 9)

StoreDrafts ==
    {SelectedDrafts(StoreZone, StoreClock, results) : results \in PhotoResults}

\* PhotoCapture.handleAddSelected, then App's onAddItems
AddSelected(batched) ==
    \E drafts \in IF tz = StoreZone /\ now = StoreClock THEN StoreDrafts
                   ELSE {SelectedDrafts(tz, now, results) : results \in PhotoResults} :
       IF Len(drafts) = 0
       THEN Rejected(batched, Called("none", 0, FALSE, "ok"))
       ELSE Handle(batched, addItems(drafts),
                   Called("addItems", nextId,
                          \E i \in DOMAIN drafts : ~ValidDraft(drafts[i]),
                          "ok"))

\* React renders after a tick that queued several updaters: they are applied
\* in order, then the persist effect runs.
Render ==
    /\ ~crashed
    /\ queue # <<>>
    /\ items' = ApplyQueue(items, queue)
    /\ queue' = <<>>
    /\ Persist
    /\ UNCHANGED <<nextId, call>>

\* The page is loaded again: the module is evaluated, the hook mounts and its
\* persist effect runs.
Reload ==
    /\ queue = <<>>
    /\ items' = loadItems(stored)
    /\ nextId' = deriveNextId(loadItems(stored))
    /\ call' = [NoHandler EXCEPT !.op = "reload"]
    /\ Persist
    /\ UNCHANGED queue

----------------------------------------------------------------------------
(* Strings, for the operations that look inside them.  Chars gives the     *)
(* characters of each string the browse list is asked to search or sort.   *)

Chars(s) ==
    CASE s = "" -> <<>>
      [] s = "Cod" -> <<"C", "o", "d">>
      [] s = "cod" -> <<"c", "o", "d">>
      [] s = "CO" -> <<"C", "O">>
      [] s = "Peas" -> <<"P", "e", "a", "s">>
      [] s = "Apple" -> <<"A", "p", "p", "l", "e">>
      [] s = "Big" -> <<"B", "i", "g">>
      [] s = "Fresh" -> <<"F", "r", "e", "s", "h">>
      [] s = "fresh" -> <<"f", "r", "e", "s", "h">>
      [] s = "cod side" -> <<"c", "o", "d", " ", "s", "i", "d", "e">>
      [] s = "z" -> <<"z">>
      [] s = "Meat" -> <<"M", "e", "a", "t">>
      [] s = "Poultry" -> <<"P", "o", "u", "l", "t", "r", "y">>
      [] s = "Seafood" -> <<"S", "e", "a", "f", "o", "o", "d">>
      [] s = "Vegetables" -> <<"V", "e", "g", "e", "t", "a", "b", "l", "e", "s">>
      [] s = "Fruit" -> <<"F", "r", "u", "i", "t">>
      [] s = "Bread & Bakery" ->
            <<"B", "r", "e", "a", "d", " ", "&", " ", "B", "a", "k", "e", "r", "y">>
      [] s = "Prepared Meals" ->
            <<"P", "r", "e", "p", "a", "r", "e", "d", " ", "M", "e", "a", "l", "s">>
      [] s = "Dairy" -> <<"D", "a", "i", "r", "y">>
      [] s = "Other" -> <<"O", "t", "h", "e", "r">>

\* The characters in collation order: punctuation before letters.
LowerCase ==
    <<" ", "&", "a", "b", "c", "d", "e", "f", "g", "h", "i", "j", "k", "l", "m",
      "n", "o", "p", "q", "r", "s", "t", "u", "v", "w", "x", "y", "z">>

UpperCase ==
    <<" ", "&", "A", "B", "C", "D", "E", "F", "G", "H", "I", "J", "K", "L", "M",
      "N", "O", "P", "Q", "R", "S", "T", "U", "V", "W", "X", "Y", "Z">>

IndexIn(seq, c) == CHOOSE i \in DOMAIN seq : seq[i] = c

IsUpper(c) == \E i \in DOMAIN UpperCase : UpperCase[i] = c /\ LowerCase[i] # c

LowerChar(c) == IF IsUpper(c) THEN LowerCase[IndexIn(UpperCase, c)] ELSE c

\* String.prototype.toLowerCase
toLowerCase(cs) == [i \in DOMAIN cs |-> LowerChar(cs[i])]

\* String.prototype.includes
includes(hay, needle) ==
    \E k \in 0..(Len(hay) - Len(needle)) :
       SubSeq(hay, k + 1, k + Len(needle)) = needle

\* The sign of the first difference of two integer sequences, a proper prefix
\* before its extensions.
CompareSeq(a, b) ==
    LET differ == {i \in DOMAIN a \cap DOMAIN b : a[i] # b[i]}
    IN  IF differ = {}
        THEN (IF Len(a) < Len(b) THEN -1 ELSE IF Len(a) > Len(b) THEN 1 ELSE 0)
        ELSE LET i == CHOOSE k \in differ : \A j \in differ : k <= j
             IN  IF a[i] < b[i] THEN -1 ELSE 1

\* String.prototype.localeCompare under the default collation: the letters
\* decide first, whatever their case; between strings with the same letters
\* the first difference of case decides, lower case first.
localeCompare(a, b) ==
    LET letters(cs) == [i \in DOMAIN cs |-> IndexIn(LowerCase, LowerChar(cs[i]))]
        cases(cs)   == [i \in DOMAIN cs |-> IF IsUpper(cs[i]) THEN 1 ELSE 0]
        primary     == CompareSeq(letters(Chars(a)), letters(Chars(b)))
    IN  IF primary # 0 THEN primary
        ELSE CompareSeq(cases(Chars(a)), cases(Chars(b)))

\* localeCompare of two ISO date strings: zero-padded digits compare as the
\* numbers they spell, field by field; the empty string is before every date.
dateLocaleCompare(a, b) == CompareSeq(<<a.y, a.m, a.d>>, <<b.y, b.m, b.d>>)

----------------------------------------------------------------------------
(* useItems: the browse list (filteredItems).                              *)

SortOptions == {"name", "dateAdded", "expiryDate", "category"}

matchesSearchNameOnly(item, query) ==
    \/ query = ""
    \/ includes(toLowerCase(Chars(item.name)), toLowerCase(Chars(query)))

matchesSearch(item, query) ==
    \/ query = ""
    \/ includes(toLowerCase(Chars(item.name)), toLowerCase(Chars(query)))
    \/ includes(toLowerCase(Chars(item.notes)), toLowerCase(Chars(query)))

matchesCategory(item, selected) ==
    selected = "All" \/ item.category = selected

\* items.filter(...)
FilterItems(list, query, selected) ==
    SelectSeq(list, LAMBDA item :
                       matchesSearch(item, query) /\ matchesCategory(item, selected))

\* The comparator passed to sort.
compareItemsOldestFirst(key, a, b) ==
    CASE key = "name" -> localeCompare(a.name, b.name)
      [] key = "dateAdded" ->
            IF a.dateAdded = NoDate /\ b.dateAdded = NoDate THEN 0
            ELSE IF a.dateAdded = NoDate THEN 1
            ELSE IF b.dateAdded = NoDate THEN -1
            ELSE dateLocaleCompare(a.dateAdded, b.dateAdded)
      [] key = "expiryDate" -> dateLocaleCompare(a.expiryDate, b.expiryDate)
      [] key = "category" -> localeCompare(a.category, b.category)
      [] OTHER -> 0

compareItems(key, a, b) ==
    CASE key = "name" -> localeCompare(a.name, b.name)
      [] key = "dateAdded" ->
            IF a.dateAdded = NoDate /\ b.dateAdded = NoDate THEN 0
            ELSE IF a.dateAdded = NoDate THEN 1
            ELSE IF b.dateAdded = NoDate THEN -1
            ELSE dateLocaleCompare(b.dateAdded, a.dateAdded)
      [] key = "expiryDate" -> dateLocaleCompare(a.expiryDate, b.expiryDate)
      [] key = "category" -> localeCompare(a.category, b.category)
      [] OTHER -> 0

\* One step of Array.prototype.sort, which is stable: x goes behind every
\* element that does not compare after it.
InsertSortedBeforeEquals(sorted, x, key) ==
    LET p == Cardinality({j \in DOMAIN sorted : compareItems(key, sorted[j], x) < 0})
    IN  SubSeq(sorted, 1, p) \o <<x>> \o SubSeq(sorted, p + 1, Len(sorted))

InsertSorted(sorted, x, key) ==
    LET p == Cardinality({j \in DOMAIN sorted : compareItems(key, sorted[j], x) <= 0})
    IN  SubSeq(sorted, 1, p) \o <<x>> \o SubSeq(sorted, p + 1, Len(sorted))

RECURSIVE SortItems(_, _)
SortItems(list, key) ==
    IF list = <<>> THEN <<>>
    ELSE InsertSorted(SortItems(SubSeq(list, 1, Len(list) - 1), key),
                      list[Len(list)], key)

\* filteredItems: the filter's new array, sorted
filteredItems(list, query, selected, key) ==
    SortItems(FilterItems(list, query, selected), key)

----------------------------------------------------------------------------
(* Dashboard.                                                              *)

MAX_EXPIRING_ROWS == 10

\* Array.prototype.sort with a comparator: the elements in the comparator's
\* order, those it calls equal in the order they had (the sort is stable).
\* compare[<<a, b>>] is the comparator's result on a and b; place[i] is
\* where element i of the array goes.
StableSort(list, compare) ==
    LET place(l) ==
           SubSeq([i \in DOMAIN l |->
                     1 + Cardinality({j \in DOMAIN l :
                                         \/ compare[<<l[j], l[i]>>] < 0
                                         \/ compare[<<l[j], l[i]>>] = 0 /\ j < i})],
                  1, Len(l))
        sorted(l, p) ==
           SubSeq([r \in DOMAIN l |-> l[CHOOSE i \in DOMAIN l : p[i] = r]], 1, Len(l))
    IN  CHOOSE s \in {sorted(lp[1], lp[2]) :
                         lp \in {<<l, place(l)>> : l \in {list}}} : TRUE

\* The pairs of elements a comparator is called on.
PairsOf(list) == {<<list[i], list[j]>> : i, j \in DOMAIN list}

\* The items of the collection with one of the given expiry statuses.
WithStatus(zone, clock, list, statuses) ==
    SelectSeq(list, LAMBDA item :
                       getExpiryStatus(zone, clock, item.expiryDate) \in statuses)

\* expiredItems: the expired items, the latest expiry date first
expiredItemsOldestFirst(zone, clock, list) ==
    CHOOSE s \in {StableSort(l, [p \in PairsOf(l) |->
                                  dateLocaleCompare(p[1].expiryDate, p[2].expiryDate)]) :
                     l \in {WithStatus(zone, clock, list, {"expired"})}} : TRUE

expiredItems(zone, clock, list) ==
    CHOOSE s \in {StableSort(l, [p \in PairsOf(l) |->
                                  dateLocaleCompare(p[2].expiryDate, p[1].expiryDate)]) :
                     l \in {WithStatus(zone, clock, list, {"expired"})}} : TRUE

\* expiringSoonItems: the items expiring soon, the earliest expiry date first
expiringSoonItems(zone, clock, list) ==
    CHOOSE s \in {StableSort(l, [p \in PairsOf(l) |->
                                  dateLocaleCompare(p[1].expiryDate, p[2].expiryDate)]) :
                     l \in {WithStatus(zone, clock, list,
                                       {"expiring-soon-7", "expiring-soon-14"})}} : TRUE

\* countMap: a Map keeps its keys in the order they were first set, so the
\* categories stand in the order the collection first shows them.
countMap(list) ==
    LET first == {i \in DOMAIN list :
                    \A j \in 1..(i - 1) : list[j].category # list[i].category}
        count(cat) == Cardinality({i \in DOMAIN list : list[i].category = cat})
        nth(r) == CHOOSE i \in first : Cardinality({j \in first : j < i}) = r - 1
    IN  [r \in 1..Cardinality(first) |->
           [category |-> list[nth(r)].category, count |-> count(list[nth(r)].category)]]

\* categoryCounts: the Map's entries, sorted by b.count - a.count
categoryCountsOfEveryCategory(list) ==
    CHOOSE s \in {StableSort(l, [p \in PairsOf(l) |-> p[2].count - p[1].count]) :
                     l \in {[r \in DOMAIN CATEGORIES |->
                               [category |-> CATEGORIES[r],
                                count |-> Cardinality({i \in DOMAIN list :
                                                         list[i].category = CATEGORIES[r]})]]}} :
       TRUE

categoryCounts(list) ==
    CHOOSE s \in {StableSort(l, [p \in PairsOf(l) |-> p[2].count - p[1].count]) :
                     l \in {countMap(list)}} : TRUE

\* totalAttention
totalAttention(zone, clock, list) ==
    Len(expiredItems(zone, clock, list) \o expiringSoonItems(zone, clock, list))

\* Array.prototype.slice(0, end), the array and the end taken as values
Slice(list, end) ==
    CHOOSE s \in {SubSeq(l, 1, IF Len(l) < e THEN Len(l) ELSE e) :
                     l \in {list}, e \in {end}} : TRUE

\* Math.max(0, n)
MaxZero(n) == CHOOSE m \in {IF k > 0 THEN k ELSE 0 : k \in {n}} : TRUE

\* shownExpired: expiredItems.slice(0, MAX_EXPIRING_ROWS)
shownExpired(zone, clock, list) ==
    Slice(expiredItems(zone, clock, list), MAX_EXPIRING_ROWS)

\* remainingSlots
remainingSlots(zone, clock, list) ==
    MAX_EXPIRING_ROWS - Len(shownExpired(zone, clock, list))

\* shownExpiring: expiringSoonItems.slice(0, Math.max(0, remainingSlots))
shownExpiring(zone, clock, list) ==
    Slice(expiringSoonItems(zone, clock, list),
          MaxZero(remainingSlots(zone, clock, list)))

\* expiredCount and expiringSoonCount, the numbers the stat cards and the
\* section badges show
expiredCountOfRows(zone, clock, list) == Len(shownExpired(zone, clock, list))

expiredCount(zone, clock, list) == Len(expiredItems(zone, clock, list))

expiringSoonCount(zone, clock, list) == Len(expiringSoonItems(zone, clock, list))

----------------------------------------------------------------------------
(* CategoryFilter and ItemList.                                            *)

\* activeCategories: CATEGORIES.filter((cat) => set.has(cat))
activeCategoriesUnfiltered(allItems) == CATEGORIES

activeCategories(allItems) ==
    SelectSeq(CATEGORIES,
              LAMBDA cat : \E i \in DOMAIN allItems : allItems[i].category = cat)

\* The pills CategoryFilter renders: "All", then the active categories.
CategoryOptions(allItems) == <<"All">> \o activeCategories(allItems)

ListView == [kind |-> "list", itemId |-> 0]

\* useItems' and App's initial view state.
DashboardView == [kind |-> "dashboard", itemId |-> 0]

\* The state of a history entry that records no view mode (state null).
NoState == [kind |-> "none", itemId |-> 0]

\* The session history of a tab opened on the app, after the effect's
\* replaceState({ viewMode: { kind: "dashboard" } }).
HistoryInit == [entries |-> <<DashboardView>>, index |-> 1]

ViewInit ==
    /\ searchQuery = ""
    /\ selectedCategory = "All"
    /\ sortBy = "expiryDate"
    /\ viewMode = DashboardView
    /\ history = HistoryInit

\* The server before any request, over an empty table.
NoBody == [f \in {} |-> ""]
NoResponse == [method |-> "none", id |-> 0, body |-> NoBody, status |-> 0]

ServerIdle ==
    /\ table = [rows |-> <<>>, auto |-> 1]
    /\ response = NoResponse

----------------------------------------------------------------------------
(* Specifications.                                                         *)

\* The store driven from the screen, in one time zone at one instant: React
\* renders after every handler.
Init ==
    /\ tz = StoreZone
    /\ now = StoreClock
    /\ dcall = NoCall
    /\ StoreInit
    /\ ViewInit
    /\ ServerIdle

Next ==
    \/ (SubmitAdd(FALSE) /\ UNCHANGED <<dateVars, viewVars, history, serverVars>>)
    \/ (SubmitEdit(FALSE) /\ UNCHANGED <<dateVars, viewVars, history, serverVars>>)
    \/ (Increase(FALSE) /\ UNCHANGED <<dateVars, viewVars, history, serverVars>>)
    \/ (Decrease(FALSE) /\ UNCHANGED <<dateVars, viewVars, history, serverVars>>)
    \/ (Delete(FALSE) /\ UNCHANGED <<dateVars, viewVars, history, serverVars>>)
    \/ (AddSelected(FALSE) /\ UNCHANGED <<dateVars, viewVars, history, serverVars>>)
    \/ (Reload /\ UNCHANGED <<dateVars, viewVars, history, serverVars>>)

Spec == Init /\ [][Next]_vars

\* The store driven by a caller that makes up to MaxQueue hook calls before
\* React renders.
BatchNext ==
    \/ (SubmitAdd(TRUE) /\ UNCHANGED <<dateVars, viewVars, history, serverVars>>)
    \/ (SubmitEdit(TRUE) /\ UNCHANGED <<dateVars, viewVars, history, serverVars>>)
    \/ (Increase(TRUE) /\ UNCHANGED <<dateVars, viewVars, history, serverVars>>)
    \/ (Decrease(TRUE) /\ UNCHANGED <<dateVars, viewVars, history, serverVars>>)
    \/ (Delete(TRUE) /\ UNCHANGED <<dateVars, viewVars, history, serverVars>>)
    \/ (AddSelected(TRUE) /\ UNCHANGED <<dateVars, viewVars, history, serverVars>>)
    \/ (Render /\ UNCHANGED <<dateVars, viewVars, history, serverVars>>)
    \/ (Reload /\ UNCHANGED <<dateVars, viewVars, history, serverVars>>)

BatchSpec == Init /\ [][BatchNext]_vars

\* The browse list over a collection the user has built, as the search box,
\* the category pills and the sort selector are used.
BrowseLen == 3

BrowseBase ==
    [name |-> "Cod", category |-> "Seafood", quantity |-> 1, unit |-> "pcs",
     dateAdded |-> [y |-> 2024, m |-> 1, d |-> 10],
     expiryDate |-> [y |-> 2024, m |-> 6, d |-> 10], notes |-> ""]

\* Drafts the form accepts, with names that differ in case only, equal names,
\* equal dates, and dateAdded cleared.
BrowsePool ==
    {BrowseBase,
     [BrowseBase EXCEPT !.name = "cod", !.category = "Meat", !.notes = "Fresh",
                        !.dateAdded = NoDate],
     [BrowseBase EXCEPT !.name = "Peas", !.category = "Vegetables",
                        !.notes = "cod side",
                        !.expiryDate = [y |-> 2024, m |-> 3, d |-> 1]],
     [BrowseBase EXCEPT !.notes = "Big",
                        !.dateAdded = [y |-> 2023, m |-> 12, d |-> 31],
                        !.expiryDate = [y |-> 2025, m |-> 1, d |-> 1]],
     [BrowseBase EXCEPT !.name = "Apple", !.category = "Fruit",
                        !.dateAdded = NoDate,
                        !.expiryDate = [y |-> 2024, m |-> 3, d |-> 1]]}

\* Collections of up to BrowseLen items added after the first item was removed.
BrowseCollections ==
    UNION {{[i \in 1..n |-> WithId(f[i], i + 1)] : f \in [1..n -> BrowsePool]} :
              n \in 0..BrowseLen}

Queries == {"", "cod", "CO", "fresh", "z"}

BrowseInit ==
    /\ tz = Oslo
    /\ now = UtcHour(2024, 1, 31, 9)
    /\ dcall = NoCall
    /\ items \in BrowseCollections
    /\ nextId = deriveNextId(items)
    /\ queue = <<>>
    /\ stored = Stored(items)
    /\ crashed = FALSE
    /\ call = NoHandler
    /\ searchQuery = ""
    /\ selectedCategory = "All"
    /\ sortBy = "expiryDate"
    /\ viewMode = ListView
    /\ history = [entries |-> <<DashboardView, ListView>>, index |-> 2]
    /\ ServerIdle

\* SearchBar's onChange
SetSearchQuery ==
    /\ viewMode.kind = "list"
    /\ \E q \in Queries : searchQuery' = q
    /\ UNCHANGED <<selectedCategory, sortBy, viewMode>>

\* A click on one of CategoryFilter's pills
SetSelectedCategory ==
    /\ viewMode.kind = "list"
    /\ \E i \in DOMAIN CategoryOptions(items) :
          selectedCategory' = CategoryOptions(items)[i]
    /\ UNCHANGED <<searchQuery, sortBy, viewMode>>

\* SortControl's onChange
SetSortBy ==
    /\ viewMode.kind = "list"
    /\ \E key \in SortOptions : sortBy' = key
    /\ UNCHANGED <<searchQuery, selectedCategory, viewMode>>

\* ItemList.handleClearFilters, offered when no item matches
ClearFilters ==
    /\ viewMode.kind = "list"
    /\ filteredItems(items, searchQuery, selectedCategory, sortBy) = <<>>
    /\ searchQuery # "" \/ selectedCategory # "All"
    /\ searchQuery' = ""
    /\ selectedCategory' = "All"
    /\ UNCHANGED <<sortBy, viewMode>>

BrowseNext ==
    \/ (SetSearchQuery /\ UNCHANGED <<dateVars, storeVars, history, serverVars>>)
    \/ (SetSelectedCategory /\ UNCHANGED <<dateVars, storeVars, history, serverVars>>)
    \/ (SetSortBy /\ UNCHANGED <<dateVars, storeVars, history, serverVars>>)
    \/ (ClearFilters /\ UNCHANGED <<dateVars, storeVars, history, serverVars>>)

BrowseSpec == BrowseInit /\ [][BrowseNext]_vars

\* The Dashboard over a collection whose expiry dates lie around today, as
\* time passes and rows are removed.
DashLen == 12
DashDeletes == 1

\* Expiry dates as days from today, with the categories of their items.  The
\* n-th item of a collection takes the n-th entry, the pattern repeated.
DashPatterns ==
    {<<[off |-> 0, category |-> "Seafood"], [off |-> 20, category |-> "Meat"],
       [off |-> -1, category |-> "Meat"]>>,
     <<[off |-> -2, category |-> "Vegetables"], [off |-> -1, category |-> "Fruit"],
       [off |-> 0, category |-> "Fruit"], [off |-> 7, category |-> "Dairy"],
       [off |-> 8, category |-> "Meat"], [off |-> 14, category |-> "Dairy"],
       [off |-> 15, category |-> "Other"]>>,
     <<[off |-> -1, category |-> "Poultry"], [off |-> 0, category |-> "Meat"]>>,
     <<[off |-> -1, category |-> "Other"]>>,
     <<[off |-> -3, category |-> "Fruit"], [off |-> 2, category |-> "Meat"],
       [off |-> -1, category |-> "Fruit"], [off |-> 1, category |-> "Seafood"],
       [off |-> -2, category |-> "Meat"], [off |-> 3, category |-> "Fruit"]>>}

DashItem(zone, clock, entry) ==
    [BrowseBase EXCEPT !.category = entry.category,
                       !.expiryDate =
                          CivilFromDays(LocalDayNumber(zone, clock) + entry.off)]

DashCollections(zone, clock) ==
    {[i \in 1..n |-> WithId(DashItem(zone, clock, pat[((i - 1) % Len(pat)) + 1]),
                            i + 1)] :
        n \in 0..DashLen, pat \in DashPatterns}

DashClocks ==
    {UtcHour(2024, 3, 25, 9), UtcHour(2024, 3, 25, 23), UtcHour(2024, 3, 31, 0)}

DashInit ==
    /\ tz = Oslo
    /\ now \in DashClocks
    /\ dcall = NoCall
    /\ items \in DashCollections(tz, now)
    /\ nextId = deriveNextId(items)
    /\ queue = <<>>
    /\ stored = Stored(items)
    /\ crashed = FALSE
    /\ call = NoHandler
    /\ ViewInit
    /\ ServerIdle

\* Time passes while the Dashboard is displayed.
DashTick ==
    /\ viewMode.kind = "dashboard"
    /\ \E t \in DashClocks : t > now /\ now' = t
    /\ UNCHANGED <<tz, dcall>>

\* The items removed since the collection was loaded: its ids began at 2.
Removed == IF nextId = 1 THEN 0 ELSE nextId - 2 - Len(items)

\* ExpiringRow.handleDelete, confirmed, on a row the Dashboard shows
DeleteShownRow ==
    /\ viewMode.kind = "dashboard"
    /\ \E rows \in {shownExpired(tz, now, items) \o shownExpiring(tz, now, items)} :
          \E i \in DOMAIN rows :
             Handle(FALSE, deleteItem(rows[i].id),
                    Called("deleteItem", rows[i].id, FALSE, "ok"))

DashDelete == Removed < DashDeletes /\ DeleteShownRow

DashNext ==
    \/ (DashTick /\ UNCHANGED <<storeVars, viewVars, history, serverVars>>)
    \/ (DashDelete /\ UNCHANGED <<dateVars, viewVars, history, serverVars>>)

DashSpec == DashInit /\ [][DashNext]_vars

----------------------------------------------------------------------------
(* The screen: App's navigation, the list and the Dashboard over one       *)
(* collection, with CategoryFilter's effect run by every render that       *)
(* leaves the list displayed.                                              *)

EditView(id) == [kind |-> "edit", itemId |-> id]

\* CategoryFilter's effect: the selection its onChange leaves behind.
AutoSwitchWithinClosedSet(selected, allItems) ==
    IF selected # "All" /\ selected \notin CategorySet THEN "All" ELSE selected

AutoSwitch(selected, allItems) ==
    IF /\ selected # "All"
       /\ ~\E i \in DOMAIN activeCategories(allItems) :
              activeCategories(allItems)[i] = selected
    THEN "All"
    ELSE selected

\* The render that ends a handler which left the given selection: with the
\* list displayed CategoryFilter is mounted and its effect runs, on the other
\* views it is not mounted.
AfterRender(selected) ==
    selectedCategory' =
       IF viewMode'.kind = "list" THEN AutoSwitch(selected, items') ELSE selected

UiLen == 2

\* Drafts of three categories: one expiring soon, one expired, one good.
UiPool ==
    {[BrowseBase EXCEPT !.expiryDate = [y |-> 2024, m |-> 3, d |-> 10]],
     [BrowseBase EXCEPT !.name = "cod", !.category = "Meat",
                        !.expiryDate = [y |-> 2024, m |-> 3, d |-> 1]],
     [BrowseBase EXCEPT !.name = "Peas", !.category = "Vegetables"]}

UiCollections ==
    UNION {{[i \in 1..n |-> WithId(f[i], i)] : f \in [1..n -> UiPool]} :
              n \in 0..UiLen}

\* The categories the edit form is saved with.
UiEditCategories == {"Meat", "Seafood"}

UiInit ==
    /\ tz = Oslo
    /\ now = UtcHour(2024, 3, 5, 9)
    /\ dcall = NoCall
    /\ items \in UiCollections
    /\ nextId = deriveNextId(items)
    /\ queue = <<>>
    /\ stored = Stored(items)
    /\ crashed = FALSE
    /\ call = NoHandler
    /\ ViewInit
    /\ ServerIdle

\* The record of a handler that called no operation of the hook; `outcome`
\* is what it was asked for.
Asked(op, option) == [NoHandler EXCEPT !.op = op, !.outcome = option]

\* A tab of Navigation: navigate({ kind })
Navigate ==
    /\ ~crashed
    /\ \E mode \in {DashboardView, ListView} : viewMode' = mode /\ mode # viewMode
    /\ call' = Asked("navigate", "ok")
    /\ UNCHANGED <<items, nextId, queue, stored, crashed, searchQuery, sortBy>>
    /\ AfterRender(selectedCategory)

\* handlePopState, after the browser's Back or handleCancel's history.back():
\* the view mode becomes one that was pushed earlier.
PopState ==
    /\ ~crashed
    /\ viewMode.kind = "edit"
    /\ \E mode \in {DashboardView, ListView} : viewMode' = mode
    /\ call' = Asked("handlePopState", "ok")
    /\ UNCHANGED <<items, nextId, queue, stored, crashed, searchQuery, sortBy>>
    /\ AfterRender(selectedCategory)

\* handleNavigateToList, from the Dashboard's stat cards ("none", "sort") and
\* from the pill of a counted category
NavigateToListKeepingCategory ==
    /\ ~crashed
    /\ viewMode.kind = "dashboard"
    /\ \E counts \in {categoryCounts(items)} :
          \E option \in {"none", "sort"} \cup {counts[i].category : i \in DOMAIN counts} :
             /\ sortBy' = IF option = "sort" THEN "expiryDate" ELSE sortBy
             /\ viewMode' = ListView
             /\ call' = Asked("handleNavigateToList", option)
             /\ UNCHANGED <<items, nextId, queue, stored, crashed, searchQuery>>
             /\ AfterRender(IF option \in {"none", "sort"} THEN selectedCategory
                            ELSE option)

NavigateToList ==
    /\ ~crashed
    /\ viewMode.kind = "dashboard"
    /\ \E counts \in {categoryCounts(items)} :
          \E option \in {"none", "sort"} \cup {counts[i].category : i \in DOMAIN counts} :
             /\ sortBy' = IF option = "sort" THEN "expiryDate" ELSE sortBy
             /\ viewMode' = ListView
             /\ call' = Asked("handleNavigateToList", option)
             /\ UNCHANGED <<items, nextId, queue, stored, crashed, searchQuery>>
             /\ AfterRender(IF option \in {"none", "sort"} THEN "All" ELSE option)

\* A click on one of CategoryFilter's pills, and the render after it
SelectCategory ==
    /\ ~crashed
    /\ SetSelectedCategory
    /\ call' = Asked("onCategoryChange", "ok")
    /\ UNCHANGED <<items, nextId, queue, stored, crashed>>

\* The sort keys and the queries the list is given under UiSpec
UiSortOptions == {"name", "expiryDate"}
UiQueries == {"", "cod"}

\* SortControl's onChange, and the render after it
SortList ==
    /\ ~crashed
    /\ viewMode.kind = "list"
    /\ \E key \in UiSortOptions : sortBy' = key /\ key # sortBy
    /\ call' = Asked("onSortChange", "ok")
    /\ UNCHANGED <<items, nextId, queue, stored, crashed, searchQuery, viewMode>>
    /\ AfterRender(selectedCategory)

\* SearchBar's onChange, and the render after it
SearchList ==
    /\ ~crashed
    /\ viewMode.kind = "list"
    /\ \E q \in UiQueries : searchQuery' = q /\ q # searchQuery
    /\ call' = Asked("onSearchChange", "ok")
    /\ UNCHANGED <<items, nextId, queue, stored, crashed, sortBy, viewMode>>
    /\ AfterRender(selectedCategory)

\* ItemCard.handleDelete, confirmed, on a card of the list
ListDelete ==
    /\ viewMode.kind = "list"
    /\ \E rows \in {filteredItems(items, searchQuery, selectedCategory, sortBy)} :
          \E i \in DOMAIN rows :
             Handle(FALSE, deleteItem(rows[i].id),
                    Called("deleteItem", rows[i].id, FALSE, "ok"))
    /\ UNCHANGED <<searchQuery, sortBy, viewMode>>
    /\ AfterRender(selectedCategory)

\* ExpiringRow.handleDelete on the Dashboard
DashboardDelete ==
    /\ DeleteShownRow
    /\ UNCHANGED <<searchQuery, sortBy, viewMode>>
    /\ AfterRender(selectedCategory)

\* handleEdit, from a card of the list or a row of the Dashboard
StartEdit ==
    /\ ~crashed
    /\ \E rows \in {IF viewMode.kind = "list"
                    THEN filteredItems(items, searchQuery, selectedCategory, sortBy)
                    ELSE IF viewMode.kind = "dashboard"
                    THEN shownExpired(tz, now, items) \o shownExpiring(tz, now, items)
                    ELSE <<>>} :
          \E i \in DOMAIN rows : viewMode' = EditView(rows[i].id)
    /\ call' = Asked("handleEdit", "ok")
    /\ UNCHANGED <<items, nextId, queue, stored, crashed, searchQuery, sortBy>>
    /\ AfterRender(selectedCategory)

\* handleEditSave with the form of editItem saved under another category
EditSave ==
    /\ viewMode.kind = "edit"
    /\ \E i \in DOMAIN items, cat \in UiEditCategories :
          /\ items[i].id = viewMode.itemId
          /\ cat # items[i].category
          /\ Handle(FALSE,
                    updateItem(viewMode.itemId,
                               [name |-> items[i].name, category |-> cat,
                                quantity |-> items[i].quantity, unit |-> items[i].unit,
                                dateAdded |-> items[i].dateAdded,
                                expiryDate |-> items[i].expiryDate,
                                notes |-> items[i].notes]),
                    Called("updateItem", viewMode.itemId, FALSE, "ok"))
    /\ viewMode' = ListView
    /\ UNCHANGED <<searchQuery, sortBy>>
    /\ AfterRender(selectedCategory)

UiNext ==
    \/ (Navigate /\ UNCHANGED <<dateVars, history, serverVars>>)
    \/ (PopState /\ UNCHANGED <<dateVars, history, serverVars>>)
    \/ (NavigateToList /\ UNCHANGED <<dateVars, history, serverVars>>)
    \/ (SelectCategory /\ UNCHANGED <<dateVars, history, serverVars>>)
    \/ (SortList /\ UNCHANGED <<dateVars, history, serverVars>>)
    \/ (SearchList /\ UNCHANGED <<dateVars, history, serverVars>>)
    \/ (ListDelete /\ UNCHANGED <<dateVars, history, serverVars>>)
    \/ (DashboardDelete /\ UNCHANGED <<dateVars, history, serverVars>>)
    \/ (StartEdit /\ UNCHANGED <<dateVars, history, serverVars>>)
    \/ (EditSave /\ UNCHANGED <<dateVars, history, serverVars>>)

UiSpec == UiInit /\ [][UiNext]_vars

-----------------------------------------------------------------------------
(* Navigation: App's view mode and the session history of the browser.     *)
(* UiSpec above does not follow the history, and lets handlePopState land  *)
(* on either view; NavSpec follows every entry.                            *)

\* The entries the session history may come to hold.
MaxHistory == 3

AddView == [kind |-> "add", itemId |-> 0]
PhotoView == [kind |-> "photo", itemId |-> 0]

\* window.history.pushState({ viewMode: mode }, ""), after the variant that
\* writes the state over the current entry
PushStateOverCurrent(h, mode) == [h EXCEPT !.entries[h.index] = mode]

PushState(h, mode) ==
    [entries |-> Append(SubSeq(h.entries, 1, h.index), mode), index |-> h.index + 1]

\* The browser moves delta entries along the session history.
Traverse(h, delta) == [h EXCEPT !.index = h.index + delta]

\* handlePopState: the view mode set for the state of the entry landed on,
\* after the variant that does not read the state
RestoredAlwaysDashboard(state) == DashboardView

Restored(state) == IF state.kind # "none" THEN state ELSE DashboardView

\* navigate(mode), from a handler that calls nothing of the hook
Go(op, mode) ==
    /\ ~crashed
    /\ history.index < MaxHistory
    /\ viewMode' = mode
    /\ history' = PushState(history, mode)
    /\ call' = Asked(op, "ok")
    /\ UNCHANGED <<items, nextId, queue, stored, crashed, searchQuery, sortBy>>
    /\ AfterRender(selectedCategory)

\* The browser fires popstate after moving delta entries.
Pop(op, way, delta) ==
    /\ ~crashed
    /\ history.index + delta \in DOMAIN history.entries
    /\ history' = Traverse(history, delta)
    /\ viewMode' = Restored(history.entries[history.index + delta])
    /\ call' = Asked(op, way)
    /\ UNCHANGED <<items, nextId, queue, stored, crashed, searchQuery, sortBy>>
    /\ AfterRender(selectedCategory)

\* editItem: whether the edit form is rendered.
EditItemFound ==
    viewMode.kind = "edit" /\ viewMode.itemId \in Ids(items)

\* A tab of Navigation, rendered over every view: navigate({ kind })
TabNavigate == \E mode \in {DashboardView, ListView} : Go("navigate", mode)

\* "Scan Food" and "+ Add Item" of the header, onNavigateToAdd and onAdd
OpenForm ==
    /\ viewMode.kind \in {"list", "dashboard"}
    /\ \E mode \in {AddView, PhotoView} : Go("navigate", mode)

\* handleEdit, from a card of the list or a row of the Dashboard
OpenEdit ==
    /\ history.index < MaxHistory
    /\ StartEdit
    /\ history' = PushState(history, viewMode')

\* ItemForm's onEditExisting, offered in add mode for an item of the collection
EditExisting ==
    /\ viewMode.kind = "add"
    /\ \E id \in Ids(items) : Go("onEditExisting", EditView(id))

\* handleNavigateToList, from the Dashboard
OpenList ==
    /\ history.index < MaxHistory
    /\ NavigateToList
    /\ history' = PushState(history, ListView)

\* handleCancel, from a form that is rendered: window.history.back(), then
\* handlePopState, after the variant that navigates to the list.
HandleCancelToList ==
    /\ viewMode.kind \in {"add", "photo"} \/ EditItemFound
    /\ Go("handleCancel", ListView)

HandleCancel ==
    /\ viewMode.kind \in {"add", "photo"} \/ EditItemFound
    /\ Pop("handleCancel", "back", -1)

\* The browser's Back and Forward buttons, then handlePopState
Back == Pop("handlePopState", "back", -1)

Forward == Pop("handlePopState", "forward", 1)

\* The user changes the fragment of the address: the browser pushes an entry
\* without state and fires popstate with state null.
FragmentNavigation ==
    /\ ~crashed
    /\ history.index < MaxHistory
    /\ history' = PushState(history, NoState)
    /\ viewMode' = Restored(NoState)
    /\ call' = Asked("handlePopState", "fragment")
    /\ UNCHANGED <<items, nextId, queue, stored, crashed, searchQuery, sortBy>>
    /\ AfterRender(selectedCategory)

\* The draft the add form and the photo batch are saved with.
NavDraft == [BrowseBase EXCEPT !.name = "Peas", !.category = "Vegetables"]

\* handleAddSave, after the variant that adds the item and stays on the form
HandleAddSaveStaying ==
    /\ viewMode.kind = "add"
    /\ Handle(FALSE, addItem(NavDraft), Called("addItem", nextId, FALSE, "ok"))
    /\ UNCHANGED <<searchQuery, sortBy, viewMode, history>>
    /\ AfterRender(selectedCategory)

HandleAddSave ==
    /\ viewMode.kind = "add"
    /\ history.index < MaxHistory
    /\ Handle(FALSE, addItem(NavDraft), Called("addItem", nextId, FALSE, "ok"))
    /\ viewMode' = ListView
    /\ history' = PushState(history, ListView)
    /\ UNCHANGED <<searchQuery, sortBy>>
    /\ AfterRender(selectedCategory)

\* handleEditSave, from the edit form that is rendered
HandleEditSave ==
    /\ EditItemFound
    /\ history.index < MaxHistory
    /\ Handle(FALSE, updateItem(viewMode.itemId, NavDraft),
              Called("updateItem", viewMode.itemId, FALSE, "ok"))
    /\ viewMode' = ListView
    /\ history' = PushState(history, ListView)
    /\ UNCHANGED <<searchQuery, sortBy>>
    /\ AfterRender(selectedCategory)

\* PhotoCapture's onAddItems: addItems(newItems); navigate({ kind: "list" })
HandlePhotoAdd ==
    /\ viewMode.kind = "photo"
    /\ history.index < MaxHistory
    /\ Handle(FALSE, addItems(<<NavDraft>>), Called("addItems", nextId, FALSE, "ok"))
    /\ viewMode' = ListView
    /\ history' = PushState(history, ListView)
    /\ UNCHANGED <<searchQuery, sortBy>>
    /\ AfterRender(selectedCategory)

\* The page is loaded again on the current entry: the store as in Reload,
\* the view state as first rendered, and the effect's replaceState.
PageReload ==
    /\ Reload
    /\ searchQuery' = ""
    /\ selectedCategory' = "All"
    /\ sortBy' = "expiryDate"
    /\ viewMode' = DashboardView
    /\ history' = [history EXCEPT !.entries[history.index] = DashboardView]

\* A tab opened on the app, over a collection of one item that expires soon,
\* with one id left to hand out.
NavItem ==
    WithId([BrowseBase EXCEPT !.expiryDate = [y |-> 2024, m |-> 3, d |-> 10]],
           MaxId - 1)

NavInit ==
    /\ tz = Oslo
    /\ now = UtcHour(2024, 3, 5, 9)
    /\ dcall = NoCall
    /\ items = <<NavItem>>
    /\ nextId = deriveNextId(items)
    /\ queue = <<>>
    /\ stored = Stored(items)
    /\ crashed = FALSE
    /\ call = NoHandler
    /\ ViewInit
    /\ ServerIdle

NavNext ==
    \/ (TabNavigate /\ UNCHANGED <<dateVars, serverVars>>)
    \/ (OpenForm /\ UNCHANGED <<dateVars, serverVars>>)
    \/ (OpenEdit /\ UNCHANGED <<dateVars, serverVars>>)
    \/ (EditExisting /\ UNCHANGED <<dateVars, serverVars>>)
    \/ (OpenList /\ UNCHANGED <<dateVars, serverVars>>)
    \/ (HandleCancel /\ UNCHANGED <<dateVars, serverVars>>)
    \/ (Back /\ UNCHANGED <<dateVars, serverVars>>)
    \/ (Forward /\ UNCHANGED <<dateVars, serverVars>>)
    \/ (FragmentNavigation /\ UNCHANGED <<dateVars, serverVars>>)
    \/ (HandleAddSave /\ UNCHANGED <<dateVars, serverVars>>)
    \/ (HandleEditSave /\ UNCHANGED <<dateVars, serverVars>>)
    \/ (HandlePhotoAdd /\ UNCHANGED <<dateVars, serverVars>>)
    \/ (ListDelete /\ UNCHANGED <<dateVars, history, serverVars>>)
    \/ (PageReload /\ UNCHANGED <<dateVars, serverVars>>)

NavSpec == NavInit /\ [][NavNext]_vars

\* The date utilities, in every zone at every clock.
DateSpecInit == DateInit /\ StoreInit /\ ViewInit /\ ServerIdle

DateNext ==
    \/ (Tick /\ UNCHANGED <<storeVars, viewVars, history, serverVars>>)
    \/ (CallGetExpiryStatus /\ UNCHANGED <<storeVars, viewVars, history, serverVars>>)
    \/ (CallAddMonths /\ UNCHANGED <<storeVars, viewVars, history, serverVars>>)

DateSpec == DateSpecInit /\ [][DateNext]_vars

-----------------------------------------------------------------------------
(* The server: the routes of /api/items over the freezer_items table.      *)

\* The rows the table may come to hold: the cap on AUTO_INCREMENT.
MaxRows == 2

\* SQL NULL
Null == "NULL"

\* The JSON bodies of the requests.  A key left out of a body is undefined.
PostBodies ==
    {[name |-> "Cod", category |-> "Seafood", quantity |-> 1, unit |-> "pcs",
      dateAdded |-> "2024-01-10", expiryDate |-> "2024-06-10", notes |-> "fresh"],
     [name |-> "Peas", category |-> "Vegetables", quantity |-> 2, unit |-> "bags",
      expiryDate |-> "2024-06-10"],
     [name |-> "", category |-> "Seafood", quantity |-> 1, unit |-> "pcs",
      expiryDate |-> "2024-06-10"],
     [name |-> "Cod", category |-> "Seafood", unit |-> "pcs",
      expiryDate |-> "2024-06-10"]}

PutBodies ==
    {NoBody,
     [id |-> 9],
     [name |-> "Peas"],
     [dateAdded |-> ""],
     [name |-> "Cod", quantity |-> 2]}

RequestIds == 1..MaxRows

\* The keys the routes read from a body, and the column each is written to.
BodyKeys == {"name", "category", "quantity", "unit", "dateAdded", "expiryDate", "notes"}

KeyOf(column) ==
    IF column = "date_added" THEN "dateAdded"
    ELSE IF column = "expiry_date" THEN "expiryDate"
    ELSE column

\* value || fallback, over the strings of a body
OrElse(body, key, fallback) ==
    IF key \in DOMAIN body /\ body[key] # "" THEN body[key] ELSE fallback

RowIds(rows) == {rows[i].id : i \in DOMAIN rows}

\* UPDATE freezer_items SET <every column>, the ones left out of the body to
\* their defaults, WHERE id = ?
UpdateRowsWholeRow(rows, id, body) ==
    [i \in DOMAIN rows |->
        IF rows[i].id # id THEN rows[i]
        ELSE [column \in DOMAIN rows[i] |->
                 IF column = "id" THEN rows[i].id
                 ELSE IF column = "date_added" THEN OrElse(body, "dateAdded", Null)
                 ELSE IF KeyOf(column) \in DOMAIN body THEN body[KeyOf(column)]
                 ELSE IF column = "notes" THEN ""
                 ELSE rows[i][column]]]

\* UPDATE freezer_items SET <the supplied columns> WHERE id = ?
UpdateRows(rows, id, body) ==
    [i \in DOMAIN rows |->
        IF rows[i].id # id THEN rows[i]
        ELSE [column \in DOMAIN rows[i] |->
                 IF KeyOf(column) \notin DOMAIN body \cap BodyKeys THEN rows[i][column]
                 ELSE IF column = "date_added" THEN OrElse(body, "dateAdded", Null)
                 ELSE body[KeyOf(column)]]]

\* DELETE FROM freezer_items WHERE id = ?
DeleteRows(rows, id) == SelectSeq(rows, LAMBDA row : row.id # id)

Answer(method, id, body, status) ==
    [method |-> method, id |-> id, body |-> body, status |-> status]

\* router.post("/"): a body without a required field is answered 400, a
\* failure of the database 500, an inserted row 201.
Post ==
    \E body \in PostBodies :
       IF \/ \E key \in {"name", "category", "unit", "expiryDate"} :
                key \notin DOMAIN body \/ body[key] = ""
          \/ "quantity" \notin DOMAIN body
       THEN /\ response' = Answer("POST", 0, body, 400)
            /\ UNCHANGED table
       ELSE \/ /\ response' = Answer("POST", 0, body, 500)
               /\ UNCHANGED table
            \/ /\ table.auto <= MaxRows
               /\ table' =
                     [rows |-> Append(table.rows,
                                      [id |-> table.auto,
                                       name |-> body.name,
                                       category |-> body.category,
                                       quantity |-> body.quantity,
                                       unit |-> body.unit,
                                       date_added |-> OrElse(body, "dateAdded", Null),
                                       expiry_date |-> body.expiryDate,
                                       notes |-> OrElse(body, "notes", "")]),
                      auto |-> table.auto + 1]
               /\ response' = Answer("POST", table.auto, body, 201)

\* router.put("/:id"): no field to update is answered 400, a failure of the
\* database 500, no row affected 404, the updated row 200.
Put ==
    \E id \in RequestIds, body \in PutBodies :
       IF DOMAIN body \cap BodyKeys = {}
       THEN /\ response' = Answer("PUT", id, body, 400)
            /\ UNCHANGED table
       ELSE \/ /\ response' = Answer("PUT", id, body, 500)
               /\ UNCHANGED table
            \/ /\ id \notin RowIds(table.rows)
               /\ response' = Answer("PUT", id, body, 404)
               /\ UNCHANGED table
            \/ /\ id \in RowIds(table.rows)
               /\ table' = [table EXCEPT !.rows = UpdateRows(table.rows, id, body)]
               /\ response' = Answer("PUT", id, body, 200)

\* router.delete("/:id"): a failure of the database is answered 500, no row
\* affected 404, the deleted row 204.
DeleteRow ==
    \E id \in RequestIds :
       \/ /\ response' = Answer("DELETE", id, NoBody, 500)
          /\ UNCHANGED table
       \/ /\ id \notin RowIds(table.rows)
          /\ response' = Answer("DELETE", id, NoBody, 404)
          /\ UNCHANGED table
       \/ /\ id \in RowIds(table.rows)
          /\ table' = [table EXCEPT !.rows = DeleteRows(table.rows, id)]
          /\ response' = Answer("DELETE", id, NoBody, 204)

ServerNext ==
    \/ (Post /\ UNCHANGED <<dateVars, storeVars, viewVars, history>>)
    \/ (Put /\ UNCHANGED <<dateVars, storeVars, viewVars, history>>)
    \/ (DeleteRow /\ UNCHANGED <<dateVars, storeVars, viewVars, history>>)

ServerSpec == Init /\ [][ServerNext]_vars

----------------------------------------------------------------------------
(* Properties of the date utilities, under DateSpec.                       *)

\* The status the classification rule gives an expiry date n calendar days
\* from today.
StatusOfDays(n) ==
    IF n < 0 THEN "expired"
    ELSE IF n <= 7 THEN "expiring-soon-7"
    ELSE IF n <= 14 THEN "expiring-soon-14"
    ELSE "good"

\* The calendar days from the local day of the call to its expiry date.
CalendarDaysOfCall ==
    DaysFromCivil(dcall.arg.y, dcall.arg.m, dcall.arg.d)
       - LocalDayNumber(tz, dcall.clock)

\* C1: for every zone, every clock and every expiry date exactly N calendar
\* days from the local today, getExpiryStatus returns expired for N < 0,
\* expiring-soon-7 for 0 <= N <= 7, expiring-soon-14 for 8 <= N <= 14 and good
\* for N > 14; an item expiring today is never expired.
C1_StatusByCalendarDays ==
    dcall.fn = "getExpiryStatus" => dcall.status = StatusOfDays(CalendarDaysOfCall)

\* C1 witness: in Oslo, six days before the clocks move to summer time, an
\* item expiring eight calendar days later (a span one hour short of eight
\* times 24 hours) is classified expiring-soon-14.
C1_AcrossSummerTimeWitness ==
    /\ dcall.fn = "getExpiryStatus"
    /\ tz = Oslo
    /\ dcall.clock = UtcHour(2024, 3, 25, 9)
    /\ CalendarDaysOfCall = 8
    /\ dcall.status = "expiring-soon-14"

\* The civil date `months` months after ds, its day of month clamped to the
\* last day of the target month.
ClampedMonthLater(ds, months) ==
    LET mi == (ds.m - 1) + months
        yy == ds.y + mi \div 12
        mm == (mi % 12) + 1
        dd == IF ds.d <= DaysInMonth(yy, mm) THEN ds.d ELSE DaysInMonth(yy, mm)
    IN  [y |-> yy, m |-> mm, d |-> dd]

\* The civil date of the instant t as the zone's wall clock shows it.
LocalDateOf(zone, t) ==
    LET f == LocalFields(zone, t) IN [y |-> f.y, m |-> f.m, d |-> f.d]

\* C2: addMonths(date, m) returns the same day of month in the month m months
\* later, clamped to the last day of that month, and never a day of the month
\* after it.  The date of `date` is read either way a Date shows one: as the
\* local civil date (getDate) or as the UTC civil date (toISOString).
C2_AddMonthsClamps ==
    dcall.fn = "addMonths" =>
       \/ dcall.date = ClampedMonthLater(LocalDateOf(tz, dcall.clock), dcall.months)
       \/ dcall.date = ClampedMonthLater(ToISODate(dcall.clock), dcall.months)

----------------------------------------------------------------------------
(* Properties of the store, under Spec.                                    *)

MutationOps == {"addItem", "addItems", "updateItem", "deleteItem"}

\* The drafts a form that passes validate submits.
AcceptedDrafts == {FormDraft(data) : data \in {f \in FormInputs : validate(f) = {}}}

\* item carries every field of draft.
CarriesDraft(item, draft) == \A f \in DOMAIN draft : item[f] = draft[f]

\* C3: a successful addItem leaves exactly one more item: the previous items
\* are all still there, unchanged and in place, and the new item carries the
\* draft's fields under an id no item had before.
C3_AddItemAddsOne ==
    [][(call'.op = "addItem" /\ call'.outcome = "ok" /\ ~crashed') =>
          /\ Len(items') = Len(items) + 1
          /\ SubSeq(items', 1, Len(items)) = items
          /\ items'[Len(items')].id \notin Ids(items)
          /\ \E draft \in AcceptedDrafts : CarriesDraft(items'[Len(items')], draft)]_vars

\* C3 witness: an addItem has been committed to a collection that held items.
C3_AddedWitness ==
    /\ call.op = "addItem"
    /\ call.outcome = "ok"
    /\ ~crashed
    /\ Len(items) >= 2
    /\ items[Len(items)].id = call.id
    /\ items[Len(items)].name = "Peas"

\* C4: in every reachable state no two items of the collection have the same
\* id.
C4_IdsUnique ==
    \A i, j \in DOMAIN items : i # j => items[i].id # items[j].id

\* C4 witness: a batch import of two items was committed after the loaded
\* collection's own item.
C4_BatchImportedWitness ==
    /\ call.op = "addItems"
    /\ ~crashed
    /\ Len(items) = 3
    /\ items[2].id = call.id
    /\ items[3].id = call.id + 1

\* C5: a create whose draft breaks an item invariant fails with ValidationError,
\* on every entry path.
C5_InvalidCreateFails ==
    (call.op \in {"addItem", "addItems"} /\ call.invalid) =>
       call.outcome = "ValidationError"

\* C6: in every reachable state every item has a quantity above zero.
C6_QuantityPositive ==
    \A i \in DOMAIN items : items[i].quantity > 0

\* C7: updateItem with an id the collection does not hold leaves the
\* collection as it was: the same items, the same fields, the same order.
C7_AbsentUpdateKeepsItems ==
    [][(call'.op = "updateItem" /\ call'.outcome = "ok"
           /\ call'.id \notin Ids(items)) => items' = items]_vars

\* C7 witness: an edit was saved for an id the collection no longer held,
\* while it held other items.
C7_AbsentUpdateWitness ==
    /\ call.op = "updateItem"
    /\ call.outcome = "ok"
    /\ call.absent
    /\ ~crashed
    /\ Len(items) >= 2
    /\ \E i \in DOMAIN items : items[i].id > call.id

\* C8: an update or delete of an id the collection does not hold ends with
\* NotFoundError for the caller.
C8_AbsentIdFails ==
    (call.op \in {"updateItem", "deleteItem"} /\ call.absent) =>
       call.outcome = "NotFoundError"

\* C9: when persisting a create, update or delete fails, the collection is
\* what it was before the attempt.
C9_FailedPersistKeepsItems ==
    [][(call'.op \in MutationOps /\ crashed') => items' = items]_vars

\* The items a step appended to the collection.
AppendedBy(old, new) == SubSeq(new, Len(old) + 1, Len(new))

\* C11: addItems behaves as independent creates in draft order: the accepted
\* drafts become new items with distinct fresh ids, a draft that fails a
\* create is left out while the ones before it stay, and a batch with a
\* failed draft reports it to the caller.
C11_BatchIsIndependentCreates ==
    [][(call'.op = "addItems" /\ ~crashed') =>
          /\ SubSeq(items', 1, Len(items)) = items
          /\ \A i \in DOMAIN AppendedBy(items, items') :
                /\ ValidDraft(AppendedBy(items, items')[i])
                /\ AppendedBy(items, items')[i].id \notin Ids(items)
          /\ call'.invalid => call'.outcome # "ok"]_vars

----------------------------------------------------------------------------
(* Properties of overlapping requests, under BatchSpec.                    *)

\* C10: an update or delete requested while another against the same id is
\* still pending is rejected with ConflictError.
C10_OverlapRejected ==
    (call.op \in {"updateItem", "deleteItem"} /\ call.pending > 0) =>
       call.outcome = "ConflictError"

----------------------------------------------------------------------------
(* Properties of the browse list, under BrowseSpec.                        *)

\* The browse list on display.
BrowseView == filteredItems(items, searchQuery, selectedCategory, sortBy)

\* The text, lower-cased, contains the query, lower-cased, at some offset.
ContainsIgnoringCase(text, query) ==
    LET t == Chars(text)
        q == Chars(query)
    IN  \E off \in 0..Len(t) :
           /\ off + Len(q) <= Len(t)
           /\ \A j \in DOMAIN q : LowerChar(t[off + j]) = LowerChar(q[j])

\* The item is one the search query and the selected category ask for.
Wanted(item) ==
    /\ \/ searchQuery = ""
       \/ ContainsIgnoringCase(item.name, searchQuery)
       \/ ContainsIgnoringCase(item.notes, searchQuery)
    /\ selectedCategory = "All" \/ item.category = selectedCategory

\* C12: the browse list holds exactly the items of the collection whose name
\* or notes contain the query, case ignored (or any, on an empty query), and
\* whose category is the selected one (or any, on "All"): none is left out,
\* none is added, none is repeated.
C12_ViewIsTheMatches ==
    /\ {BrowseView[i] : i \in DOMAIN BrowseView}
          = {items[i] : i \in {k \in DOMAIN items : Wanted(items[k])}}
    /\ Len(BrowseView) = Cardinality({k \in DOMAIN items : Wanted(items[k])})

\* C12 witness: a query in another case than the text, matching one item by
\* its notes only and one by its name, under a selected category that holds
\* one of them and not the other.
C12_NotesMatchWitness ==
    /\ searchQuery = "CO"
    /\ selectedCategory = "Vegetables"
    /\ Len(BrowseView) = 1
    /\ BrowseView[1].name = "Peas"
    /\ \E i \in DOMAIN items : items[i].name = "Cod"
    /\ Len(items) = 3

\* The names and the categories of the model, in alphabetical order.
NamesAToZ == <<"Apple", "cod", "Cod", "Peas">>

CategoriesAToZ ==
    <<"Bread & Bakery", "Dairy", "Fruit", "Meat", "Other", "Poultry",
      "Prepared Meals", "Seafood", "Vegetables">>

DayOf(ds) == DaysFromCivil(ds.y, ds.m, ds.d)

\* Under the sort key, a may stand before b.
MayPrecede(key, a, b) ==
    CASE key = "name" -> IndexIn(NamesAToZ, a.name) <= IndexIn(NamesAToZ, b.name)
      [] key = "expiryDate" -> DayOf(a.expiryDate) <= DayOf(b.expiryDate)
      [] key = "category" ->
            IndexIn(CategoriesAToZ, a.category) <= IndexIn(CategoriesAToZ, b.category)
      [] key = "dateAdded" ->
            /\ a.dateAdded = NoDate => b.dateAdded = NoDate
            /\ (a.dateAdded # NoDate /\ b.dateAdded # NoDate)
                  => DayOf(a.dateAdded) >= DayOf(b.dateAdded)

\* C13: the browse list is ordered by the selected key: name ascending,
\* expiryDate ascending, category ascending, dateAdded descending with every
\* item of unknown dateAdded behind every item of known dateAdded.
C13_ViewIsSorted ==
    \A i, j \in DOMAIN BrowseView :
       i < j => MayPrecede(sortBy, BrowseView[i], BrowseView[j])

\* C13 witness: sorted by dateAdded, a collection that began with an item of
\* unknown dateAdded shows the newest first, the older next, the unknown last.
C13_NewestFirstWitness ==
    /\ sortBy = "dateAdded"
    /\ Len(BrowseView) = 3
    /\ items[1].dateAdded = NoDate
    /\ BrowseView[1].dateAdded = [y |-> 2024, m |-> 1, d |-> 10]
    /\ BrowseView[2].dateAdded = [y |-> 2023, m |-> 12, d |-> 31]
    /\ BrowseView[3].dateAdded = NoDate

\* The place of an item in the collection.
PlaceOf(item) == CHOOSE k \in DOMAIN items : items[k] = item

\* For the sort key, a and b carry the same value.
SameKey(key, a, b) ==
    CASE key = "name" -> a.name = b.name
      [] key = "expiryDate" -> a.expiryDate = b.expiryDate
      [] key = "category" -> a.category = b.category
      [] key = "dateAdded" -> a.dateAdded = b.dateAdded

\* C14: under each sort key, items equal on the key stand in the browse list
\* in the order the collection holds them; the list on display is a function
\* of the collection, the query, the category and the sort key alone, so a
\* sort key selected again gives the ordering it gave before.
C14_TiesKeepCollectionOrder ==
    \A i, j \in DOMAIN BrowseView :
       (i < j /\ SameKey(sortBy, BrowseView[i], BrowseView[j]))
          => PlaceOf(BrowseView[i]) < PlaceOf(BrowseView[j])

\* C14 witness: sorted by name, two items named "Cod" follow an item they
\* preceded in the collection, the first of them still first.
C14_EqualNamesWitness ==
    /\ sortBy = "name"
    /\ Len(BrowseView) = 3
    /\ items[3].name = "Apple"
    /\ BrowseView[1].name = "Apple"
    /\ BrowseView[2].name = "Cod"
    /\ BrowseView[3].name = "Cod"
    /\ BrowseView[2].notes # BrowseView[3].notes
    /\ BrowseView[2] = items[1]

\* The place of a category in the closed category set.
CategoryPlace(cat) == IndexIn(CATEGORIES, cat)

\* C19: the category options offered on the browse list are "All" followed by
\* exactly the categories that have an item in the whole collection, in the
\* order of the closed category set, whatever the query and the selection.
C19_OptionsAreTheUsedCategories ==
    LET opts == CategoryOptions(items)
    IN  /\ opts[1] = "All"
        /\ {opts[i] : i \in 2..Len(opts)}
              = {c \in CategorySet : \E k \in DOMAIN items : items[k].category = c}
        /\ \A i, j \in 2..Len(opts) :
              i < j => CategoryPlace(opts[i]) < CategoryPlace(opts[j])

\* C19 witness: while a query that matches nothing and a selected category
\* leave the browse list empty, a collection entered as Vegetables, Seafood,
\* Meat is offered All, Meat, Seafood, Vegetables.
C19_ThreeCategoriesWitness ==
    /\ searchQuery = "z"
    /\ selectedCategory = "Meat"
    /\ BrowseView = <<>>
    /\ Len(items) = 3
    /\ items[1].category = "Vegetables"
    /\ items[2].category = "Seafood"
    /\ items[3].category = "Meat"
    /\ CategoryOptions(items) = <<"All", "Meat", "Seafood", "Vegetables">>

----------------------------------------------------------------------------
(* Properties of the Dashboard, under DashSpec.                            *)

\* The calendar days from the local today to the item's expiry date.
DaysLeft(item) == DayOf(item.expiryDate) - LocalDayNumber(tz, now)

ExpiredList == expiredItems(tz, now, items)

ExpiringList == expiringSoonItems(tz, now, items)

\* The items of the collection that have fewer than 0 days left, and those
\* that have 0 to 14 days left.
PastExpiry == {items[k] : k \in {i \in DOMAIN items : DaysLeft(items[i]) < 0}}

DueSoon ==
    {items[k] : k \in {i \in DOMAIN items :
                          DaysLeft(items[i]) >= 0 /\ DaysLeft(items[i]) <= 14}}

Elements(list) == {list[i] : i \in DOMAIN list}

RECURSIVE SumOfCounts(_)
SumOfCounts(entries) ==
    IF entries = <<>> THEN 0
    ELSE entries[1].count + SumOfCounts(Tail(entries))

\* C16: the per-category counts add up to the number of items, each listed
\* count is at least 1, and no category is listed twice.
C16_CountsAddUp ==
    \A counts \in {categoryCounts(items)} :
       /\ SumOfCounts(counts) = Len(items)
       /\ \A i \in DOMAIN counts : counts[i].count >= 1
       /\ \A i, j \in DOMAIN counts :
             i # j => counts[i].category # counts[j].category

\* C16 witness: after one of twelve items was deleted, eleven items in three
\* categories are counted 6, 4 and 1.
C16_ThreeCountsWitness ==
    /\ call.op = "deleteItem"
    /\ Len(items) = 11
    /\ categoryCounts(items) =
          <<[category |-> "Fruit", count |-> 6], [category |-> "Meat", count |-> 4],
            [category |-> "Seafood", count |-> 1]>>

\* C17: the per-category counts stand in descending order of count, equal
\* counts in the order of the closed category set.
C17_CountsOrder ==
    \A counts \in {categoryCounts(items)} :
       \A i, j \in DOMAIN counts :
          i < j =>
             \/ counts[i].count > counts[j].count
             \/ /\ counts[i].count = counts[j].count
                /\ CategoryPlace(counts[i].category) < CategoryPlace(counts[j].category)

\* The smaller of two numbers.
Least(a, b) == IF a < b THEN a ELSE b

----------------------------------------------------------------------------
(* Properties of the screen, under UiSpec.                                 *)

HasItems(cat) == \E i \in DOMAIN items : items[i].category = cat

\* C20: whenever the list is displayed and its effects have run, the selected
\* category is "All" or a category with at least one item: a selection whose
\* category lost its last item, by a delete or by an edit to another category,
\* from the list or from the Dashboard, has been reset to "All".
C20_SelectionHasItems ==
    viewMode.kind = "list" => selectedCategory = "All" \/ HasItems(selectedCategory)

\* C20 witness: on the Dashboard, a delete has removed the last item of the
\* category that is still selected for the list.
C20_LastItemDeletedOnDashboardWitness ==
    /\ viewMode.kind = "dashboard"
    /\ call.op = "deleteItem"
    /\ selectedCategory = "Seafood"
    /\ ~HasItems("Seafood")
    /\ items # <<>>

\* C30: a step of handleNavigateToList from the Dashboard displays the list
\* with the requested category selected, or "All" when none was requested; it
\* sets the sort key to "expiryDate" when a sort was requested and leaves it
\* alone otherwise; it changes neither the search query nor the collection;
\* and a category requested from a pill of the Dashboard has an item.
C30_NavigateToListFrame ==
    [][call'.op = "handleNavigateToList" =>
          /\ viewMode.kind = "dashboard"
          /\ viewMode' = ListView
          /\ selectedCategory' = IF call'.outcome \in {"none", "sort"} THEN "All"
                                 ELSE call'.outcome
          /\ sortBy' = IF call'.outcome = "sort" THEN "expiryDate" ELSE sortBy
          /\ searchQuery' = searchQuery
          /\ items' = items
          /\ call'.outcome \in {"none", "sort"} \/ HasItems(call'.outcome)]_vars

C30_PillWithQueryAndNameSortWitness ==
    /\ call.op = "handleNavigateToList"
    /\ call.outcome = "Seafood"
    /\ selectedCategory = "Seafood"
    /\ sortBy = "name"
    /\ searchQuery = "cod"
    /\ viewMode = ListView

----------------------------------------------------------------------------
(* Properties of the store's counter, storage and updaters, under Spec.    *)

\* C25: the counter ids are handed out from only grows, so that an id handed
\* out is greater than every id handed out before, also across a reload.
C25_CounterOnlyGrows == [][nextId' >= nextId]_vars

\* C28: a reload restores exactly the collection that was current before it.
C28_ReloadRestoresItems == [][call'.op = "reload" => items' = items]_vars

\* The changes a caller of updateItem supplies: a draft the form submits, or a
\* quantity one step from the item's.
SuppliedChanges(item) ==
    AcceptedDrafts
       \cup {[quantity |-> q] : q \in {item.quantity - 1, item.quantity + 1}}

\* The item with the supplied fields replaced and its other fields kept.
Replaced(item, changes) ==
    [f \in DOMAIN item |-> IF f \in DOMAIN changes THEN changes[f] ELSE item[f]]

\* C29: updateItem on an id the collection holds changes only the supplied
\* fields of that item, which keeps its id and its place, and no other item;
\* deleteItem on such an id takes exactly that item out and keeps the others
\* as they were, in their order.
C29_UpdateAndDeleteTouchOneItem ==
    [][/\ (call'.op = "updateItem" /\ call'.outcome = "ok"
              /\ call'.id \in Ids(items))
          => /\ DOMAIN items' = DOMAIN items
             /\ \A i \in DOMAIN items :
                   IF items[i].id = call'.id
                   THEN /\ items'[i].id = items[i].id
                        /\ \E changes \in SuppliedChanges(items[i]) :
                              items'[i] = Replaced(items[i], changes)
                   ELSE items'[i] = items[i]
       /\ (call'.op = "deleteItem" /\ call'.id \in Ids(items))
          => \E i \in DOMAIN items :
                /\ items[i].id = call'.id
                /\ items' = SubSeq(items, 1, i - 1)
                               \o SubSeq(items, i + 1, Len(items))]_vars

\* C29 witness: after the first item was deleted, the last of the two left
\* was deleted, its id not being its place in the collection; the other stays.
C29_LastItemDeletedWitness ==
    /\ call.op = "deleteItem"
    /\ ~call.absent
    /\ ~crashed
    /\ Len(items) = 1
    /\ items[1].id = 2
    /\ call.id = 3


-----------------------------------------------------------------------------
(* Properties of the server's routes, under ServerSpec.                    *)

\* The keys of the last request's body that the route writes.
Supplied == DOMAIN response'.body \cap BodyKeys

\* The last request was answered by the route and not by its catch block.
Answered(method) == response'.method = method /\ response'.status # 500

-----------------------------------------------------------------------------
(* Properties of the navigation, under NavSpec.                            *)

\* The handlers that end in navigate(mode).
ForwardOps ==
    {"navigate", "handleEdit", "onEditExisting", "handleNavigateToList",
     "addItem", "updateItem", "addItems"}

\* The view mode an entry of the history records, Dashboard when it records
\* none.
Recorded(n) ==
    IF history.entries[n].kind = "none" THEN DashboardView ELSE history.entries[n]

\* C21: the view mode starts as Dashboard; every step that navigates pushes
\* one entry, after the current one, that carries the view mode the step
\* ends in; every back signal moves to the entry before the current one and
\* sets the view mode that entry records, Dashboard when it records none.
C21_HistoryFollowsNavigation ==
    /\ viewMode = DashboardView
    /\ [][/\ call'.op \in ForwardOps
                => /\ history'.index = history.index + 1
                   /\ history'.entries
                         = Append(SubSeq(history.entries, 1, history.index), viewMode')
          /\ call'.outcome = "back"
                => /\ history.index > 1
                   /\ history'.index = history.index - 1
                   /\ history'.entries = history.entries
                   /\ viewMode' = Recorded(history.index - 1)]_vars

\* C21 witness: a back signal from the list has landed on an entry without
\* state, and the Dashboard is displayed.
C21_BackOntoStatelessEntryWitness ==
    /\ call.op = "handlePopState"
    /\ call.outcome = "back"
    /\ history = [entries |-> <<DashboardView, NoState, ListView>>, index |-> 2]
    /\ viewMode = DashboardView

\* The screen that was displayed before the step that displayed the current
\* one: the entry after the current one when that step was a back signal, the
\* entry before it otherwise.
ScreenBeforeEntering ==
    IF call.outcome = "back"
    THEN Recorded(history.index + 1)
    ELSE Recorded(history.index - 1)

\* C22, as stated: a cancel displays the screen that was displayed immediately
\* before the form was entered.
C22_CancelReturnsToEnteringScreen ==
    [][call'.op = "handleCancel" => viewMode' = ScreenBeforeEntering]_vars

\* C22: a cancel is one backward step of the history: it moves to the entry
\* before the form's, keeps every entry, displays the view mode that entry
\* records and leaves the collection alone.
C22_CancelIsOneStepBack ==
    [][call'.op = "handleCancel"
          => /\ viewMode.kind \in {"add", "edit", "photo"}
             /\ history.index > 1
             /\ history'.index = history.index - 1
             /\ history'.entries = history.entries
             /\ viewMode' = Recorded(history.index - 1)
             /\ items' = items]_vars

\* C22 witness: Dashboard, list, add form, cancel: the list is displayed, on
\* the second of the three entries.
C22_CancelledAddFormWitness ==
    /\ call.op = "handleCancel"
    /\ history = [entries |-> <<DashboardView, ListView, AddView>>, index |-> 2]
    /\ viewMode = ListView

\* C23: a save of the add form, of the edit form or of a photo batch changes
\* the collection (the new item appended under the next id, the edited item
\* replaced in its place), displays the list and pushes an entry for the list.
C23_SaveThenList ==
    [][call'.op \in {"addItem", "updateItem", "addItems"}
          => /\ viewMode' = ListView
             /\ history'.index = history.index + 1
             /\ history'.entries
                   = Append(SubSeq(history.entries, 1, history.index), ListView)
             /\ IF call'.op = "updateItem"
                THEN /\ viewMode.kind = "edit"
                     /\ DOMAIN items' = DOMAIN items
                     /\ \E i \in DOMAIN items : items[i].id = viewMode.itemId
                     /\ \A i \in DOMAIN items :
                           items'[i] = IF items[i].id = viewMode.itemId
                                       THEN WithId(NavDraft, viewMode.itemId)
                                       ELSE items[i]
                ELSE /\ viewMode.kind \in {"add", "photo"}
                     /\ items' = Append(items, WithId(NavDraft, nextId))
                     /\ nextId' = nextId + 1]_vars

\* C23 witness: the edit form opened from the Dashboard was saved: the item
\* is changed, the list is displayed on a third entry.
C23_EditSavedWitness ==
    /\ call.op = "updateItem"
    /\ history = [entries |-> <<DashboardView, EditView(MaxId - 1), ListView>>,
                  index |-> 3]
    /\ viewMode = ListView
    /\ items = <<WithId(NavDraft, MaxId - 1)>>

\* C24: no state of the mounted application has the edit view active for an
\* id that no item of the collection has.
C24_NoEditViewOfMissingItem ==
    crashed \/ ~(viewMode.kind = "edit" /\ viewMode.itemId \notin Ids(items))

\* C27: the view mode displayed is the one the current entry of the history
\* records, the Dashboard when the entry records none.
C27_ViewModeIsCurrentEntry ==
    /\ history.index \in DOMAIN history.entries
    /\ viewMode = Recorded(history.index)

\* C27 witness: after the add form was left by a tab and two back signals, a
\* forward signal displays the add form again, on the second of three entries.
C27_ForwardOntoFormWitness ==
    /\ call.op = "handlePopState"
    /\ call.outcome = "forward"
    /\ history = [entries |-> <<DashboardView, AddView, ListView>>, index |-> 2]
    /\ viewMode = AddView

====
